---- MODULE Spec2Model ----
(***************************************************************************)
(* Model of the emma data ingestor: cmd/ingestor/main.go (main,            *)
(* startWorker, fetchAndPublish), internal/config (LoadSourceConfigs,      *)
(* SourceConfig.Validate), internal/handlers (GetHandler, HTTPFetcher) and *)
(* internal/kafka (Producer.PublishPoints).                                *)
(*                                                                         *)
(* Spec follows the whole run of the process; StartSpec the startup alone, *)
(* for every directory; ExtractSpec one source fetching with any           *)
(* extraction config; PubSpec PublishPoints called on any batch.           *)
(*                                                                         *)
(* Values decoded from YAML (map[string]any) are tagged records            *)
(* [t |-> type, v |-> value]; a Go type assertion x.(string) is a test of  *)
(* the tag.  float64 values are restricted to whole numbers.  JSON         *)
(* documents are nested nodes, and a gjson path is the sequence of its     *)
(* dot-separated keys.                                                     *)
(***************************************************************************)
EXTENDS Integers, Sequences, FiniteSets, TLC

(* ------------------------------ bounds -------------------------------- *)

\* Largest number of entries under ./sources/ that the walk visits.
MaxFiles == 2

\* Largest number of timer ticks that fire in a run, over all tickers.
MaxTicks == 1

\* Longest batch handed directly to PublishPoints (specification PubSpec).
MaxBatch == 2

\* Longest data_points list of the configs given directly to the extraction
\* (specification ExtractSpec).
MaxEntries == 2

\* Largest reading of the clock in ExtractSpec, in units of its resolution.
MaxClock == 2

\* Longest headers list of the configs of RequestSpec.
MaxHeaders == 2

(* --------------------------- YAML values ------------------------------ *)

StrV(s) == [t |-> "string", v |-> s]
FloatV(n) == [t |-> "float64", v |-> n]
IntV(n) == [t |-> "int", v |-> n]
ListV(q) == [t |-> "list", v |-> q]
MapV(m) == [t |-> "map", v |-> m]

\* config[key].(T): the comma-ok type assertion on a map element.
HasType(config, key, type) == key \in DOMAIN config /\ config[key].t = type

\* The string standing for a byte sequence that is not valid UTF-8.
BadUtf8 == "\\xff"

(* ------------------------- time.ParseDuration ------------------------- *)

\* time.ParseDuration on the frequency strings of the catalogue, in seconds.
ParseDuration(s) ==
    CASE s = "15s" -> [err |-> "", d |-> 15]
      [] s = "30s" -> [err |-> "", d |-> 30]
      [] s = "0s"  -> [err |-> "", d |-> 0]
      [] s = "-5s" -> [err |-> "", d |-> 0 - 5]
      [] OTHER     -> [err |-> "invalid duration", d |-> 0]

(* --------------------------- internal/config -------------------------- *)

Categories == {"environmental", "health", "infrastructure", "economic", "social"}

ValidateCategory(category) == category \in Categories

GetFrequency(s) == ParseDuration(s.Frequency)

\* SourceConfigValidate without the check of the category against the set.
SourceConfigValidateAnyCategory(s) ==
    IF s.Name = "" THEN "source name cannot be empty"
    ELSE IF s.Type = "" THEN "source type cannot be empty"
    ELSE IF s.Category = "" THEN "source category cannot be empty"
    ELSE IF s.Frequency = "" THEN "source frequency cannot be empty"
    ELSE IF GetFrequency(s).err # "" THEN "invalid frequency format"
    ELSE ""

\* SourceConfig.Validate: "" when valid, the error otherwise.
SourceConfigValidate(s) ==
    IF s.Name = "" THEN "source name cannot be empty"
    ELSE IF s.Type = "" THEN "source type cannot be empty"
    ELSE IF s.Category = "" THEN "source category cannot be empty"
    ELSE IF ~ValidateCategory(s.Category) THEN "invalid category"
    ELSE IF s.Frequency = "" THEN "source frequency cannot be empty"
    ELSE IF GetFrequency(s).err # "" THEN "invalid frequency format"
    ELSE ""

\* WalkFrom with a file that fails skipped instead of ending the walk.
RECURSIVE WalkFromSkipping(_, _, _)
WalkFromSkipping(entries, k, configs) ==
    IF k > Len(entries) THEN [configs |-> configs, err |-> "", path |-> 0]
    ELSE LET f == entries[k] IN
         IF ~f.walkErr /\ f.ext \in {".yaml", ".yml"} /\ f.readable /\ f.parses
                /\ SourceConfigValidate(f.def) = ""
         THEN WalkFromSkipping(entries, k + 1, Append(configs, f.def))
         ELSE WalkFromSkipping(entries, k + 1, configs)

\* The walk callback applied to the entries from position k on; the first
\* error ends the walk and is returned with the configs appended so far.  An
\* entry filepath.Walk could not visit comes with the error of the walk,
\* which the callback returns as it is.
RECURSIVE WalkFrom(_, _, _)
WalkFrom(entries, k, configs) ==
    IF k > Len(entries) THEN [configs |-> configs, err |-> "", path |-> 0]
    ELSE LET f == entries[k] IN
         IF f.walkErr
         THEN [configs |-> configs, err |-> "walk error", path |-> k]
         ELSE IF f.ext \notin {".yaml", ".yml"} THEN WalkFrom(entries, k + 1, configs)
         ELSE IF ~f.readable
              THEN [configs |-> configs, err |-> "failed to read", path |-> k]
         ELSE IF ~f.parses
              THEN [configs |-> configs, err |-> "failed to parse", path |-> k]
         ELSE IF SourceConfigValidate(f.def) # ""
              THEN [configs |-> configs, err |-> "invalid configuration", path |-> k]
         ELSE WalkFrom(entries, k + 1, Append(configs, f.def))

LoadSourceConfigs(entries) == WalkFrom(entries, 1, <<>>)

(* ---------------------- the catalogue of inputs ----------------------- *)

CoordLiteral == MapV([lat |-> FloatV(45), lon |-> FloatV(120)])
CoordPaths == MapV([lat_path |-> StrV("coord.lat"), lon_path |-> StrV("coord.lon")])

\* Single-point mode; the author also wrote source and category keys.
SingleConfig ==
    [url |-> StrV("http://api/one"),
     response_path |-> StrV("main.temp"),
     variable |-> StrV("temperature"),
     units |-> StrV("celsius"),
     coordinates |-> CoordLiteral,
     source |-> StrV("author_source"),
     category |-> StrV("social")]

\* Multi-point mode: two entries, the first with path coordinates and with
\* source and category keys of its own.
MultiConfig ==
    [url |-> StrV("http://api/two"),
     source |-> StrV("author_source"),
     data_points |-> ListV(<<
        MapV([response_path |-> StrV("main.temp"),
              variable |-> StrV("temperature"),
              units |-> StrV("celsius"),
              coordinates |-> CoordPaths,
              source |-> StrV("entry_source"),
              category |-> StrV("economic")]),
        MapV([response_path |-> StrV("main.hum"),
              variable |-> StrV("humidity"),
              units |-> StrV("percent"),
              coordinates |-> CoordLiteral,
              station_id |-> StrV("st1")]) >>)]

NoUrlConfig == [response_path |-> StrV("main.temp"), coordinates |-> CoordLiteral]

UrlNotStringConfig ==
    [url |-> IntV(8080), response_path |-> StrV("main.temp"),
     coordinates |-> CoordLiteral]

\* Multi-point mode with no entry that is a map.
NoEntryConfig ==
    [url |-> StrV("http://api/three"),
     data_points |-> ListV(<< StrV("main.temp") >>)]

HeaderNoValueConfig ==
    [url |-> StrV("http://api/one"),
     headers |-> ListV(<< MapV([key |-> StrV("Authorization")]) >>),
     response_path |-> StrV("main.temp"),
     coordinates |-> CoordLiteral]

(* The configs given directly to the extraction (specification ExtractSpec). *)

\* Whole-number literals, which the YAML decoder yields as int.
CoordInt == MapV([lat |-> IntV(45), lon |-> IntV(120)])
\* Latitude by path, longitude by literal.
CoordMixed == MapV([lat_path |-> StrV("coord.lat"), lon |-> FloatV(120)])
CoordLatOnly == MapV([lat |-> FloatV(45)])
CoordLonOnly == MapV([lon_path |-> StrV("coord.lon")])
CoordNone == MapV(<< >>)
CoordLatOut == MapV([lat |-> FloatV(95), lon |-> FloatV(120)])
CoordLonOut == MapV([lat |-> FloatV(45), lon |-> FloatV(200)])
\* The inclusive ends of both ranges.
CoordEdge == MapV([lat |-> FloatV(90), lon |-> FloatV(0 - 180)])

\* The values of the coordinates key; the last one is not a mapping.
CoordForms ==
    << CoordLiteral, CoordPaths, CoordInt, CoordMixed, CoordLatOnly, CoordLonOnly,
       CoordNone, CoordLatOut, CoordLonOut, CoordEdge, StrV("45,120") >>

\* The response_path strings: the second names the root of the document.
ExtPaths == {"main.temp", "$.main.temp"}

\* Single-point mode with the given response_path and coordinates value.
SingleWith(path, coords) ==
    [url |-> StrV("http://api/one"),
     response_path |-> StrV(path),
     variable |-> StrV("temperature"),
     units |-> StrV("celsius"),
     coordinates |-> coords]

SingleNoCoordinates ==
    [url |-> StrV("http://api/one"),
     response_path |-> StrV("main.temp"),
     variable |-> StrV("temperature"),
     units |-> StrV("celsius")]

\* The data_points entries the lists are made of; the last one is not a
\* mapping.
ExtEntries ==
    << MapV([response_path |-> StrV("main.temp"), variable |-> StrV("temperature"),
            units |-> StrV("celsius"), coordinates |-> CoordPaths]),
      MapV([response_path |-> StrV("main.hum"), variable |-> StrV("humidity"),
            units |-> StrV("percent"), coordinates |-> CoordLiteral,
            station_id |-> StrV("st1")]),
      MapV([response_path |-> StrV("main.temp"), variable |-> StrV("pressure"),
            units |-> StrV("hpa"), coordinates |-> CoordInt]),
      MapV([response_path |-> StrV("$.main.temp"), variable |-> StrV("temperature"),
            units |-> StrV("kelvin"), coordinates |-> CoordLiteral]),
      MapV([response_path |-> StrV("main.temp"), coordinates |-> CoordMixed]),
      MapV([response_path |-> StrV("main.temp"), variable |-> StrV("temperature"),
            units |-> StrV("celsius"), coordinates |-> CoordLatOut]),
      StrV("main.temp") >>

\* The data_points lists, as sequences of indices of ExtEntries.
EntryLists == UNION { [1..n -> DOMAIN ExtEntries] : n \in 0..MaxEntries }

\* Multi-point mode with the entries chosen by list.
MultiWith(list) ==
    [url |-> StrV("http://api/two"),
     data_points |-> ListV([k \in DOMAIN list |-> ExtEntries[list[k]]])]

Def(name, type, category, frequency, config) ==
    [Name |-> name, Type |-> type, Category |-> category,
     Frequency |-> frequency, Config |-> config]

YamlFile(def) ==
    [ext |-> ".yaml", readable |-> TRUE, parses |-> TRUE, walkErr |-> FALSE, def |-> def]

\* The kinds of directory entry the walk can meet; the last one is an entry
\* the walk cannot visit (a sub-directory that cannot be listed, or the root
\* when it does not exist).
Catalogue ==
    << YamlFile(Def("alpha", "http_fetch", "environmental", "15s", SingleConfig)),
       YamlFile(Def("beta", "http_fetch", "health", "30s", MultiConfig)),
       YamlFile(Def("gamma", "web_scraper", "economic", "15s", SingleConfig)),
       YamlFile(Def("delta", "ftp_download", "economic", "15s", SingleConfig)),
       YamlFile(Def("epsilon", "rss_feed", "social", "15s", SingleConfig)),
       YamlFile(Def("zeta", "http_fetch", "health", "15s", NoUrlConfig)),
       YamlFile(Def("eta", "http_fetch", "health", "15s", UrlNotStringConfig)),
       YamlFile(Def("theta", "http_fetch", "health", "15s", HeaderNoValueConfig)),
       YamlFile(Def("iota", "http_fetch", "environmental", "0s", SingleConfig)),
       YamlFile(Def("kappa", "http_fetch", "environmental", "-5s", SingleConfig)),
       YamlFile(Def("lambda", "http_fetch", "weather", "15s", SingleConfig)),
       YamlFile(Def("mu", "http_fetch", "environmental", "often", SingleConfig)),
       [ext |-> ".yaml", readable |-> FALSE, parses |-> FALSE, walkErr |-> FALSE,
        def |-> Def("", "", "", "", SingleConfig)],
       [ext |-> ".yml", readable |-> TRUE, parses |-> FALSE, walkErr |-> FALSE,
        def |-> Def("", "", "", "", SingleConfig)],
       [ext |-> ".disabled", readable |-> TRUE, parses |-> TRUE, walkErr |-> FALSE,
        def |-> Def("nu", "http_fetch", "environmental", "15s", SingleConfig)],
       YamlFile(Def("omicron", "http_fetch", "social", "15s", NoEntryConfig)),
       YamlFile(Def("", "http_fetch", "social", "15s", SingleConfig)),
       YamlFile(Def("rho", "", "social", "15s", SingleConfig)),
       YamlFile(Def("sigma", "http_fetch", "", "15s", SingleConfig)),
       YamlFile(Def("tau", "http_fetch", "social", "", SingleConfig)),
       [ext |-> "", readable |-> FALSE, parses |-> FALSE, walkErr |-> TRUE,
        def |-> Def("", "", "", "", SingleConfig)] >>

\* The directory contents: the entries in the order the walk visits them.
Directories ==
    UNION { [1..n -> 1..Len(Catalogue)] : n \in 1..MaxFiles }

\* The entries of the directories whose whole run is followed: alpha, beta,
\* gamma, zeta, eta, theta, iota and lambda.
RunFiles == {1, 2, 3, 6, 7, 8, 9, 11}

\* The goroutines do not depend on the order in which the walk met their
\* sources: the whole run is followed for one order of each choice of entries.
RunDirectories ==
    { d \in Directories :
        /\ \A k \in DOMAIN d : d[k] \in RunFiles
        /\ \A k \in DOMAIN d : k > 1 => d[k - 1] <= d[k] }

Entries(d) == [k \in DOMAIN d |-> Catalogue[d[k]]]

(* ------------------------------ gjson --------------------------------- *)

\* The float64 NaN, which strconv.ParseFloat yields for "NaN"; every ordered
\* comparison with it is false.
NaN == 0 - 1000000

FloatLT(a, b) == a # NaN /\ b # NaN /\ a < b

JObj(m) == [t |-> "object", m |-> m]
JNum(n) == [t |-> "number", n |-> n]
JStr(x) == [t |-> "string", s |-> x]
JNull == [t |-> "null"]

\* The dot-separated keys of the path strings in use.  gjson has no root
\* marker: a leading "$" is an ordinary key.
PathSegs(path) ==
    CASE path = "" -> << >>
      [] path = "main.temp" -> <<"main", "temp">>
      [] path = "main.hum" -> <<"main", "hum">>
      [] path = "coord.lat" -> <<"coord", "lat">>
      [] path = "coord.lon" -> <<"coord", "lon">>
      [] path = "$.main.temp" -> <<"$", "main", "temp">>
      [] OTHER -> <<path>>

NoResult == [exists |-> FALSE, node |-> JNull]

RECURSIVE Descend(_, _)
Descend(node, segs) ==
    IF segs = << >> THEN [exists |-> TRUE, node |-> node]
    ELSE IF node.t = "object" /\ Head(segs) \in DOMAIN node.m
         THEN Descend(node.m[Head(segs)], Tail(segs))
         ELSE NoResult

\* gjson.Get: the empty path addresses nothing.
GjsonGet(json, path) ==
    IF PathSegs(path) = << >> THEN NoResult ELSE Descend(json, PathSegs(path))

\* strconv.ParseFloat on the string leaves in use (0 when it fails).
ParseFloatOrZero(x) ==
    CASE x = "45" -> 45
      [] x = "21" -> 21
      [] x = "NaN" -> NaN
      [] OTHER -> 0

\* Result.Float
ResultFloat(r) ==
    CASE r.node.t = "number" -> r.node.n
      [] r.node.t = "string" -> ParseFloatOrZero(r.node.s)
      [] OTHER -> 0

(* --------------------------- internal/handlers ------------------------ *)

\* GetHandler: only http_fetch resolves to a handler.
GetHandler(handlerType) ==
    CASE handlerType = "http_fetch" -> [err |-> "", handler |-> "HTTPFetcher"]
      [] handlerType = "web_scraper" ->
            [err |-> "web_scraper not implemented yet", handler |-> "nil"]
      [] handlerType = "ftp_download" ->
            [err |-> "ftp_download not implemented yet", handler |-> "nil"]
      [] OTHER -> [err |-> "unknown handler type", handler |-> "nil"]

\* HTTPFetcher.Validate: only the presence of the url key is checked.
HTTPFetcherValidate(config) ==
    IF "url" \in DOMAIN config THEN "" ELSE "url is required for http_fetch"

getStringConfig(config, key, defaultValue) ==
    IF HasType(config, key, "string") THEN config[key].v ELSE defaultValue

LatMin == 0 - 90
LatMax == 90
LonMin == 0 - 180
LonMax == 180

CoordErr(msg) == [err |-> msg, lat |-> 0, lon |-> 0]

\* extractOne with a coordinate given in neither form taken as 0.
extractOneDefaultZero(jsonData, coords, pathKey, litKey) ==
    IF HasType(coords, pathKey, "string")
    THEN LET r == GjsonGet(jsonData, coords[pathKey].v) IN
         IF ~r.exists THEN [err |-> "path not found in JSON", v |-> 0]
         ELSE [err |-> "", v |-> ResultFloat(r)]
    ELSE IF HasType(coords, litKey, "float64")
         THEN [err |-> "", v |-> coords[litKey].v]
         ELSE [err |-> "", v |-> 0]

\* One coordinate: the path form first, then the float64 literal.
extractOne(jsonData, coords, pathKey, litKey) ==
    IF HasType(coords, pathKey, "string")
    THEN LET r == GjsonGet(jsonData, coords[pathKey].v) IN
         IF ~r.exists THEN [err |-> "path not found in JSON", v |-> 0]
         ELSE [err |-> "", v |-> ResultFloat(r)]
    ELSE IF HasType(coords, litKey, "float64")
         THEN [err |-> "", v |-> coords[litKey].v]
         ELSE [err |-> "must be specified via path or literal", v |-> 0]

extractCoordinates(jsonData, coords) ==
    LET la == extractOne(jsonData, coords, "lat_path", "lat")
        lo == extractOne(jsonData, coords, "lon_path", "lon")
    IN  IF la.err # "" THEN CoordErr(la.err)
        ELSE IF lo.err # "" THEN CoordErr(lo.err)
        ELSE IF FloatLT(la.v, LatMin) \/ FloatLT(LatMax, la.v)
             THEN CoordErr("invalid latitude")
        ELSE IF FloatLT(lo.v, LonMin) \/ FloatLT(LonMax, lo.v)
             THEN CoordErr("invalid longitude")
        ELSE [err |-> "", lat |-> la.v, lon |-> lo.v]

\* generateUUID, with the reading of time.Now().UnixNano() as timestamp:
\* the string source_variable_stationId_timestamp, or
\* source_variable_timestamp when stationId is empty.
generateUUID(source, variable, stationId, timestamp) ==
    IF stationId # ""
    THEN source \o "_" \o variable \o "_" \o stationId \o "_" \o ToString(timestamp)
    ELSE source \o "_" \o variable \o "_" \o ToString(timestamp)

NilPoint ==
    [Source |-> "", Category |-> "", Variable |-> "", Units |-> "",
     Value |-> 0, Lat |-> 0, Lon |-> 0, Resolution |-> "",
     Uuid |-> ""]

\* now is what the clock reads when the token is made.  EpochMs is left out.
extractSingleDataPoint(jsonData, config, source, category, now) ==
    LET responsePath == getStringConfig(config, "response_path", "")
        result == GjsonGet(jsonData, responsePath)
        co == extractCoordinates(jsonData, config["coordinates"].v)
    IN  IF responsePath = ""
        THEN [err |-> "response_path is required", point |-> NilPoint]
        ELSE IF ~result.exists
        THEN [err |-> "response_path not found in JSON", point |-> NilPoint]
        ELSE IF ~HasType(config, "coordinates", "map")
        THEN [err |-> "coordinates are required", point |-> NilPoint]
        ELSE IF co.err # ""
        THEN [err |-> "failed to extract coordinates", point |-> NilPoint]
        ELSE [err |-> "",
              point |-> [Source |-> source,
                         Category |-> category,
                         Variable |-> getStringConfig(config, "variable", "unknown"),
                         Units |-> getStringConfig(config, "units", "unknown"),
                         Value |-> ResultFloat(result),
                         Lat |-> co.lat,
                         Lon |-> co.lon,
                         Resolution |-> getStringConfig(config, "resolution", "point"),
                         Uuid |-> generateUUID(source,
                                     getStringConfig(config, "variable", "unknown"),
                                     getStringConfig(config, "station_id", ""),
                                     now)]]

\* extractEntries with a failing entry skipped instead of returned.
RECURSIVE extractEntriesSkipping(_, _, _, _, _, _, _)
extractEntriesSkipping(jsonData, dataPoints, k, source, category, points, times) ==
    IF k > Len(dataPoints) THEN [err |-> "", points |-> points]
    ELSE IF dataPoints[k].t # "map"
         THEN extractEntriesSkipping(jsonData, dataPoints, k + 1, source, category, points, times)
    ELSE LET r == extractSingleDataPoint(jsonData, dataPoints[k].v, source, category,
                                         times[Len(points) + 1])
         IN  extractEntriesSkipping(jsonData, dataPoints, k + 1, source, category,
                    IF r.err # "" THEN points ELSE Append(points, r.point), times)

\* The loop over data_points from entry k on: an entry that is not a map is
\* skipped, the first failing entry returns the error and no points.
RECURSIVE extractEntries(_, _, _, _, _, _, _)
extractEntries(jsonData, dataPoints, k, source, category, points, times) ==
    IF k > Len(dataPoints) THEN [err |-> "", points |-> points]
    ELSE IF dataPoints[k].t # "map"
         THEN extractEntries(jsonData, dataPoints, k + 1, source, category, points, times)
    ELSE LET r == extractSingleDataPoint(jsonData, dataPoints[k].v, source, category,
                                         times[Len(points) + 1])
         IN  IF r.err # ""
             THEN [err |-> "failed to extract data point", points |-> << >>]
             ELSE extractEntries(jsonData, dataPoints, k + 1, source, category,
                                 Append(points, r.point), times)

\* times are the readings of the clock, one for each point made, in order.
extractDataPoints(jsonData, config, times) ==
    LET source == getStringConfig(config, "source", "unknown")
        category == getStringConfig(config, "category", "environmental")
    IN  IF HasType(config, "data_points", "list")
        THEN extractEntries(jsonData, config["data_points"].v, 1, source, category,
                            << >>, times)
        ELSE LET r == extractSingleDataPoint(jsonData, config, source, category, times[1])
             IN  IF r.err # ""
                 THEN [err |-> "failed to extract data point", points |-> << >>]
                 ELSE [err |-> "", points |-> <<r.point>>]

\* A {key, value} entry whose h["key"].(string) or h["value"].(string) panics.
EntryPanics(e) ==
    e.t = "map" /\ (~HasType(e.v, "key", "string") \/ ~HasType(e.v, "value", "string"))

ListPanics(config, key) ==
    HasType(config, key, "list")
        /\ \E k \in DOMAIN config[key].v : EntryPanics(config[key].v[k])

\* http.NewRequest rejects a malformed method or URL.
NewRequestFails(method, url) == method = "BAD METHOD" \/ url = "http://[bad"

\* The process environment: for each name, whether it is set and to what.
EnvNames == {"MY_VAR", "OTHER_VAR"}

EnvVar(set, v) == [set |-> set, v |-> v]

\* os.Getenv: the empty string for a name that is not set.
Getenv(e, name) == IF name \in DOMAIN e /\ e[name].set THEN e[name].v ELSE ""

\* EnvRef with no value taken as a reference to the environment.
EnvRefNever(value) == [ref |-> FALSE, name |-> ""]

\* strings.HasPrefix(value, "${") && strings.HasSuffix(value, "}") on the
\* header values in use, with the name the two Trim calls leave.
EnvRef(value) ==
    CASE value = "${MY_VAR}" -> [ref |-> TRUE, name |-> "MY_VAR"]
      [] value = "${OTHER_VAR}" -> [ref |-> TRUE, name |-> "OTHER_VAR"]
      [] value = "${}" -> [ref |-> TRUE, name |-> ""]
      [] value = "${MY_VAR}-${OTHER_VAR}" -> [ref |-> TRUE, name |-> "MY_VAR}-${OTHER_VAR"]
      [] OTHER -> [ref |-> FALSE, name |-> ""]

\* textproto.CanonicalMIMEHeaderKey on the header keys in use.
CanonicalKey(key) ==
    CASE key = "authorization" -> "Authorization"
      [] key = "x-api-key" -> "X-Api-Key"
      [] OTHER -> key

\* http.Header.Set: the value of the key is replaced, or the key is added.
HeaderSet(req, key, value) ==
    IF \E n \in DOMAIN req : req[n].key = CanonicalKey(key)
    THEN [n \in DOMAIN req |->
            IF req[n].key = CanonicalKey(key) THEN [key |-> req[n].key, value |-> value]
            ELSE req[n]]
    ELSE Append(req, [key |-> CanonicalKey(key), value |-> value])

\* The loop over config["headers"] from entry k on (lines 221-236), for
\* entries that do not panic: an entry that is not a map is skipped.
RECURSIVE setHeaders(_, _, _, _)
setHeaders(headers, k, e, req) ==
    IF k > Len(headers) THEN req
    ELSE IF headers[k].t # "map" THEN setHeaders(headers, k + 1, e, req)
    ELSE LET key == headers[k].v["key"].v
             value == headers[k].v["value"].v
         IN  setHeaders(headers, k + 1, e,
                HeaderSet(req, key,
                    IF EnvRef(value).ref THEN Getenv(e, EnvRef(value).name) ELSE value))

\* The headers of the request Fetch sends.
requestHeaders(config, e) ==
    IF HasType(config, "headers", "list")
    THEN setHeaders(config["headers"].v, 1, e, << >>)
    ELSE << >>

\* The part of Fetch before the request is sent: "panic" for a failed type
\* assertion, an error from http.NewRequest, "" when the request goes out.
FetchPrepare(config) ==
    IF ~HasType(config, "url", "string") THEN "panic"
    ELSE IF NewRequestFails(getStringConfig(config, "method", "GET"), config["url"].v)
         THEN "failed to create request"
    ELSE IF ListPanics(config, "headers") \/ ListPanics(config, "params") THEN "panic"
    ELSE ""

DocA == JObj([main |-> JObj([temp |-> JNum(21), hum |-> JNum(60)]),
              coord |-> JObj([lat |-> JNum(45), lon |-> JNum(120)])])
DocB == JObj([main |-> JObj([temp |-> JNum(21)]),
              coord |-> JObj([lat |-> JNum(45), lon |-> JNum(120)])])
DocC == JObj([main |-> JObj([temp |-> JNum(21), hum |-> JNum(60)]),
              coord |-> JObj([lat |-> JNum(95), lon |-> JNum(120)])])

\* Longitude out of range.
DocD == JObj([main |-> JObj([temp |-> JNum(21), hum |-> JNum(60)]),
              coord |-> JObj([lat |-> JNum(45), lon |-> JNum(200)])])
\* Latitude given as the string "NaN".
DocE == JObj([main |-> JObj([temp |-> JNum(21), hum |-> JNum(60)]),
              coord |-> JObj([lat |-> JStr("NaN"), lon |-> JNum(120)])])
\* Both coordinates at an end of their range.
DocF == JObj([main |-> JObj([temp |-> JNum(21), hum |-> JNum(60)]),
              coord |-> JObj([lat |-> JNum(0 - 90), lon |-> JNum(180)])])
\* Latitude given as a numeric string.
DocG == JObj([main |-> JObj([temp |-> JNum(21), hum |-> JNum(60)]),
              coord |-> JObj([lat |-> JStr("45"), lon |-> JNum(120)])])

Response(transportOK, status, parses, doc) ==
    [transportOK |-> transportOK, status |-> status, parses |-> parses, doc |-> doc]

StatusOK == 200

\* What the endpoint can answer.
Responses ==
    << Response(FALSE, 0, FALSE, JNull),
       Response(TRUE, 500, TRUE, DocA),
       Response(TRUE, 200, FALSE, JNull),
       Response(TRUE, 200, TRUE, DocA),
       Response(TRUE, 200, TRUE, DocB),
       Response(TRUE, 200, TRUE, DocC) >>

\* The answers given to the configs of ExtractSpec: those above and four more
\* documents.
ExtResponses ==
    Responses \o << Response(TRUE, 200, TRUE, DocD),
                    Response(TRUE, 200, TRUE, DocE),
                    Response(TRUE, 200, TRUE, DocF),
                    Response(TRUE, 200, TRUE, DocG) >>

\* The response carries a JSON document: lines 252-266 all pass.
HasDocument(resp) == resp.transportOK /\ resp.status = StatusOK /\ resp.parses

\* The part of Fetch after client.Do returns resp.
FetchComplete(config, resp, times) ==
    IF ~resp.transportOK THEN [err |-> "failed to fetch data", points |-> << >>]
    ELSE IF resp.status # StatusOK THEN [err |-> "HTTP status", points |-> << >>]
    ELSE IF ~resp.parses THEN [err |-> "failed to parse JSON", points |-> << >>]
    ELSE extractDataPoints(resp.doc, config, times)

\* The most points a fetch with this config makes: one reading each.
ClockReads(config) ==
    IF HasType(config, "data_points", "list") THEN Len(config["data_points"].v) ELSE 1

\* The readings n successive calls of time.Now can give on a clock that shows
\* one of clocks: the clock does not go back, and need not move between calls.
Readings(n, clocks) ==
    { times \in [1..n -> clocks] : \A j \in 1..(n - 1) : times[j] <= times[j + 1] }

(* ----------------------------- internal/kafka ------------------------- *)

StringFields(p) == {p.Source, p.Category, p.Variable, p.Units, p.Resolution, p.Uuid}

\* utf8.ValidString fails: the string holds the bytes that are not valid
\* UTF-8 somewhere.
ScanUtf8(s) ==
    \E k \in 1..(Len(s) - Len(BadUtf8) + 1) :
        SubSeq(s, k, k + Len(BadUtf8) - 1) = BadUtf8

\* The words the inputs are made of, and those of them that are valid UTF-8,
\* scanned once.
Words ==
    {"alpha", "beta", "gamma", "zeta", "eta", "theta", "iota", "lambda",
     "environmental", "health", "infrastructure", "economic", "social", "weather",
     "temperature", "humidity", "pressure", "celsius", "percent", "hpa", "kelvin",
     "unknown", "point", "author_source", "entry_source", BadUtf8}

ValidWords == { s \in Words : ~ScanUtf8(s) }

\* The string is not valid UTF-8: any string that is not a valid word is
\* scanned.
InvalidUtf8(s) == s \notin ValidWords /\ ScanUtf8(s)

\* protobuf.Marshal: a string field that is not valid UTF-8 is an error.
protobufMarshal(p) ==
    IF \E f \in StringFields(p) : InvalidUtf8(f)
    THEN [err |-> "string field contains invalid UTF-8", encoding |-> "none"]
    ELSE [err |-> "", encoding |-> "protobuf"]

\* json.Marshal: NaN is an unsupported value; invalid UTF-8 is replaced.
jsonMarshal(p) ==
    IF NaN \in {p.Value, p.Lat, p.Lon}
    THEN [err |-> "json: unsupported value", encoding |-> "none"]
    ELSE [err |-> "", encoding |-> "json"]

\* marshalPoint without the JSON fallback.
marshalPointNoFallback(p) == protobufMarshal(p)

\* The encoding that produces the message value: protobuf first, JSON as
\* the fallback.
marshalPoint(p) ==
    LET data == protobufMarshal(p) IN
    IF data.err = "" THEN data ELSE jsonMarshal(p)

\* The format header of a message.
formatHeader(p) == "protobuf"

\* Message with the variable as the key.
MessageKeyedByVariable(p) ==
    [Key |-> p.Variable,
     Value |-> [encoding |-> marshalPoint(p).encoding, point |-> p],
     Headers |-> [source |-> p.Source, variable |-> p.Variable,
                  category |-> p.Category, format |-> formatHeader(p)]]

Message(p) ==
    [Key |-> p.Source,
     Value |-> [encoding |-> marshalPoint(p).encoding, point |-> p],
     Headers |-> [source |-> p.Source, variable |-> p.Variable,
                  category |-> p.Category, format |-> formatHeader(p)]]

\* The loop of PublishPoints that fills messages: the first point that
\* neither encoding accepts returns the error.
RECURSIVE buildMessages(_, _, _)
buildMessages(pts, k, messages) ==
    IF k > Len(pts) THEN [err |-> "", messages |-> messages]
    ELSE IF marshalPoint(pts[k]).err # ""
         THEN [err |-> "failed to marshal point to JSON", messages |-> << >>]
         ELSE buildMessages(pts, k + 1, Append(messages, Message(pts[k])))

\* PublishPoints without the early return for an empty batch.
PublishPointsNoEmptyCheck(pts) ==
    LET b == buildMessages(pts, 1, << >>) IN
    IF b.err # "" THEN [do |-> "return", err |-> b.err, messages |-> << >>]
    ELSE [do |-> "write", err |-> "", messages |-> b.messages]

\* PublishPoints up to the call of WriteMessages: "return" with the result
\* when it returns before, "write" with the messages it submits.
PublishPoints(pts) ==
    IF Len(pts) = 0 THEN [do |-> "return", err |-> "", messages |-> << >>]
    ELSE LET b == buildMessages(pts, 1, << >>) IN
         IF b.err # "" THEN [do |-> "return", err |-> b.err, messages |-> << >>]
         ELSE [do |-> "write", err |-> "", messages |-> b.messages]

(* ------------------------------ the state ----------------------------- *)

VARIABLES
    dir,        \* the entries under ./sources/, as catalogue indices
    pcMain,     \* where main is
    sources,    \* the configs LoadSourceConfigs returned
    loadErr,    \* the error LoadSourceConfigs returned: [err, path]
    crashed,    \* a goroutine panicked: the process is gone
    closed,     \* producer.Close has been called
    pc,         \* per source: where its startWorker goroutine is
    taskCfg,    \* per source: the sourceConfig map of its goroutine
    tickChan,   \* per source: ticks waiting in ticker.C (capacity 1)
    ticksFired, \* ticks sent by all tickers so far
    ticksUsed,  \* per source: ticks received by the range loop
    cycles,     \* per source: calls of fetchAndPublish
    lastDoc,    \* per source: the document the fetch just parsed (0: none)
    points,     \* per source: the points Fetch returned, while fetchAndPublish runs
    outcome,    \* per source: how this cycle ended ("" while it runs)
    written,    \* per source: the batches given to WriteMessages in this cycle
    env,        \* the environment of the process
    sent        \* per source: the headers of the request of this cycle

vars == <<dir, pcMain, sources, loadErr, crashed, closed, pc, taskCfg, tickChan,
          ticksFired, ticksUsed, cycles, lastDoc, points, outcome, written,
          env, sent>>

mainVars == <<dir, pcMain, sources, loadErr, closed, env>>
cycleVars == <<lastDoc, points, outcome, written, sent>>

Tasks == DOMAIN pc

\* The process exists: main has not left and no goroutine has panicked.
Alive == pcMain \in {"wait", "closing"} /\ ~crashed

\* The states of a goroutine that has created its ticker and not returned.
LoopStates == {"cycle", "fetching", "publish", "writing", "waitTick"}

NoErr == [err |-> "", path |-> 0]

\* The environment of the runs that do not vary it.
DefaultEnv == [n \in EnvNames |-> IF n = "MY_VAR" THEN EnvVar(TRUE, "secret")
                                  ELSE EnvVar(FALSE, "")]

InitWith(dirs) ==
    /\ dir \in dirs
    /\ pcMain = "load"
    /\ sources = << >>
    /\ loadErr = NoErr
    /\ crashed = FALSE
    /\ closed = FALSE
    /\ pc = << >>
    /\ taskCfg = << >>
    /\ tickChan = << >>
    /\ ticksFired = 0
    /\ ticksUsed = << >>
    /\ cycles = << >>
    /\ lastDoc = << >>
    /\ points = << >>
    /\ outcome = << >>
    /\ written = << >>
    /\ env = DefaultEnv
    /\ sent = << >>

(* -------------------------------- main -------------------------------- *)

Fresh(n, x) == [i \in 1..n |-> x]

\* main, lines 18-43: load, the two fatal exits, NewProducer.
MainLoad ==
    /\ pcMain = "load"
    /\ LET r == LoadSourceConfigs(Entries(dir))
           n == IF r.err = "" THEN Len(r.configs) ELSE 0
       IN  /\ sources' = r.configs
           /\ loadErr' = [err |-> r.err, path |-> r.path]
           /\ pcMain' = IF r.err # "" \/ Len(r.configs) = 0 THEN "fatal" ELSE "spawn"
           /\ pc' = Fresh(n, "unspawned")
           /\ taskCfg' = Fresh(n, << >>)
           /\ tickChan' = Fresh(n, 0)
           /\ ticksUsed' = Fresh(n, 0)
           /\ cycles' = Fresh(n, 0)
           /\ lastDoc' = Fresh(n, 0)
           /\ points' = Fresh(n, << >>)
           /\ outcome' = Fresh(n, "")
           /\ written' = Fresh(n, << >>)
           /\ sent' = Fresh(n, << >>)
    /\ UNCHANGED <<dir, crashed, closed, ticksFired, env>>

\* main, lines 46-48: go startWorker(source, producer) for every source.
MainSpawn ==
    /\ pcMain = "spawn"
    /\ pc' = [i \in Tasks |-> "start"]
    /\ pcMain' = "wait"
    /\ UNCHANGED <<dir, sources, loadErr, crashed, closed, taskCfg, tickChan,
                   ticksFired, ticksUsed, cycles, cycleVars, env>>

\* main, lines 57-59 and 43: the termination signal arrives, main returns
\* and the deferred producer.Close() begins: the writer is marked closed,
\* whatever the goroutines are doing.
MainShutdown ==
    /\ pcMain = "wait"
    /\ ~crashed
    /\ closed' = TRUE
    /\ pcMain' = "closing"
    /\ UNCHANGED <<dir, sources, loadErr, crashed, pc, taskCfg, tickChan,
                   ticksFired, ticksUsed, cycles, cycleVars, env>>

\* Close returns and main with it: Close waits for the calls of
\* WriteMessages that entered before it, and then the process exits,
\* whatever else the goroutines are doing.
MainExit ==
    /\ pcMain = "closing"
    /\ ~crashed
    /\ \A i \in Tasks : pc[i] # "writing"
    /\ pcMain' = "exited"
    /\ UNCHANGED <<dir, sources, loadErr, crashed, closed, pc, taskCfg, tickChan,
                   ticksFired, ticksUsed, cycles, cycleVars, env>>

(* ----------------------------- startWorker ---------------------------- *)

\* startWorkerChecks without the call of handler.Validate.
startWorkerChecksNoValidate(source) ==
    IF GetHandler(source.Type).err # "" THEN "Failed to get handler"
    ELSE IF GetFrequency(source).err # "" THEN "Invalid frequency"
    ELSE ""

\* lines 62-82: the handler, its Validate, the frequency; "" when all pass.
startWorkerChecks(source) ==
    IF GetHandler(source.Type).err # "" THEN "Failed to get handler"
    ELSE IF HTTPFetcherValidate(source.Config) # "" THEN "Invalid config"
    ELSE IF GetFrequency(source).err # "" THEN "Invalid frequency"
    ELSE ""

\* mergeConfig that keeps a category or source key the author wrote.
mergeConfigKeeping(source) ==
    [k \in DOMAIN source.Config \cup {"category", "source"} |->
        IF k \in DOMAIN source.Config THEN source.Config[k]
        ELSE IF k = "category" THEN StrV(source.Category)
        ELSE StrV(source.Name)]

\* lines 85-90: a copy of source.Config with category and source set.
mergeConfig(source) ==
    [k \in DOMAIN source.Config \cup {"category", "source"} |->
        IF k = "category" THEN StrV(source.Category)
        ELSE IF k = "source" THEN StrV(source.Name)
        ELSE source.Config[k]]

\* time.NewTicker panics on a non-positive interval.
NewTickerPanics(d) == d <= 0

\* WorkerStart with category and source written into the map of the loaded
\* definition, which the goroutine then uses as its config.
WorkerStartMergingInPlace(i) ==
    /\ Alive /\ pc[i] = "start"
    /\ IF startWorkerChecks(sources[i]) # ""
       THEN /\ pc' = [pc EXCEPT ![i] = "returned"]
            /\ UNCHANGED <<taskCfg, crashed, sources>>
       ELSE /\ taskCfg' = [taskCfg EXCEPT ![i] = mergeConfig(sources[i])]
            /\ sources' = [sources EXCEPT ![i].Config = mergeConfig(sources[i])]
            /\ crashed' = NewTickerPanics(GetFrequency(sources[i]).d)
            /\ pc' = [pc EXCEPT ![i] = IF crashed' THEN "panicked" ELSE "cycle"]
    /\ UNCHANGED <<dir, pcMain, loadErr, closed, env, tickChan, ticksFired, ticksUsed,
                   cycles, cycleVars>>

\* startWorker, lines 62-94: the checks, the merged config, the ticker.
WorkerStart(i) ==
    /\ Alive /\ pc[i] = "start"
    /\ IF startWorkerChecks(sources[i]) # ""
       THEN /\ pc' = [pc EXCEPT ![i] = "returned"]
            /\ UNCHANGED <<taskCfg, crashed>>
       ELSE /\ taskCfg' = [taskCfg EXCEPT ![i] = mergeConfig(sources[i])]
            /\ crashed' = NewTickerPanics(GetFrequency(sources[i]).d)
            /\ pc' = [pc EXCEPT ![i] = IF crashed' THEN "panicked" ELSE "cycle"]
    /\ UNCHANGED <<mainVars, tickChan, ticksFired, ticksUsed, cycles, cycleVars>>

\* The runtime timer of source i fires: the tick is dropped when ticker.C is full.
Tick(i) ==
    /\ Alive /\ pc[i] \in LoopStates
    /\ ticksFired < MaxTicks
    /\ tickChan[i] = 0
    /\ tickChan' = [tickChan EXCEPT ![i] = 1]
    /\ ticksFired' = ticksFired + 1
    /\ UNCHANGED <<mainVars, crashed, pc, taskCfg, ticksUsed, cycles, cycleVars>>

(* --------------------------- fetchAndPublish -------------------------- *)

\* lines 106-108 and Fetch up to client.Do: the request goes out, or Fetch
\* returns the error of http.NewRequest, or a type assertion panics.
FetchBegin(i) ==
    /\ cycles' = [cycles EXCEPT ![i] = @ + 1]
    /\ lastDoc' = [lastDoc EXCEPT ![i] = 0]
    /\ points' = [points EXCEPT ![i] = << >>]
    /\ written' = [written EXCEPT ![i] = << >>]
    /\ LET r == FetchPrepare(taskCfg[i]) IN
        /\ crashed' = (r = "panic")
        /\ pc' = [pc EXCEPT ![i] =
                    IF r = "panic" THEN "panicked"
                    ELSE IF r # "" THEN "waitTick" ELSE "fetching"]
        /\ outcome' = [outcome EXCEPT ![i] =
                    IF r \notin {"", "panic"} THEN "fetch error" ELSE ""]
        /\ sent' = [sent EXCEPT ![i] =
                    IF r = "" THEN requestHeaders(taskCfg[i], env) ELSE << >>]
    /\ UNCHANGED <<mainVars, taskCfg>>

\* line 97: the cycle at task start.
FirstCycle(i) ==
    /\ Alive /\ pc[i] = "cycle"
    /\ FetchBegin(i)
    /\ UNCHANGED <<tickChan, ticksFired, ticksUsed>>

\* TickCycle as a loop that does not wait for ticker.C.
TickCycleNoWait(i) ==
    /\ Alive /\ pc[i] = "waitTick"
    /\ cycles[i] <= MaxTicks
    /\ FetchBegin(i)
    /\ UNCHANGED <<tickChan, ticksFired, ticksUsed>>

\* TickCycle as a loop that starts the cycle of a tick while the cycle
\* before it is still running.
TickCycleOverlapping(i) ==
    /\ Alive /\ pc[i] \in {"fetching", "publish", "writing", "waitTick"}
    /\ tickChan[i] = 1
    /\ tickChan' = [tickChan EXCEPT ![i] = 0]
    /\ ticksUsed' = [ticksUsed EXCEPT ![i] = @ + 1]
    /\ FetchBegin(i)
    /\ UNCHANGED ticksFired

\* lines 100-101: the range loop receives a tick and starts a cycle.
TickCycle(i) ==
    /\ Alive /\ pc[i] = "waitTick"
    /\ tickChan[i] = 1
    /\ tickChan' = [tickChan EXCEPT ![i] = 0]
    /\ ticksUsed' = [ticksUsed EXCEPT ![i] = @ + 1]
    /\ FetchBegin(i)
    /\ UNCHANGED ticksFired

\* FetchReturnOf without the return on zero points (lines 114-117).
FetchReturnOfNoEmptyCheck(i, resps, clocks) ==
    /\ Alive /\ pc[i] = "fetching"
    /\ \E k \in DOMAIN resps : \E times \in Readings(ClockReads(taskCfg[i]), clocks) :
        LET r == FetchComplete(taskCfg[i], resps[k], times) IN
        /\ lastDoc' = [lastDoc EXCEPT ![i] = IF HasDocument(resps[k]) THEN k ELSE 0]
        /\ points' = [points EXCEPT ![i] = r.points]
        /\ outcome' = [outcome EXCEPT ![i] = IF r.err # "" THEN "fetch error" ELSE ""]
        /\ pc' = [pc EXCEPT ![i] = IF r.err # "" THEN "waitTick" ELSE "publish"]
    /\ UNCHANGED <<mainVars, crashed, taskCfg, tickChan, ticksFired, ticksUsed,
                   cycles, written, sent>>

\* client.Do returns one of the answers resps and Fetch completes, on a clock
\* that shows one of clocks meanwhile; lines 109-119.
FetchReturnOf(i, resps, clocks) ==
    /\ Alive /\ pc[i] = "fetching"
    /\ \E k \in DOMAIN resps : \E times \in Readings(ClockReads(taskCfg[i]), clocks) :
        LET r == FetchComplete(taskCfg[i], resps[k], times) IN
        /\ lastDoc' = [lastDoc EXCEPT ![i] = IF HasDocument(resps[k]) THEN k ELSE 0]
        /\ points' = [points EXCEPT ![i] = r.points]
        /\ outcome' = [outcome EXCEPT ![i] =
                         IF r.err # "" THEN "fetch error"
                         ELSE IF Len(r.points) = 0 THEN "no data points" ELSE ""]
        /\ pc' = [pc EXCEPT ![i] =
                         IF r.err # "" \/ Len(r.points) = 0 THEN "waitTick"
                         ELSE "publish"]
    /\ UNCHANGED <<mainVars, crashed, taskCfg, tickChan, ticksFired, ticksUsed,
                   cycles, written, sent>>

\* The run as a whole is followed on a clock too coarse to move during it.
RunClocks == {0}

FetchReturn(i) == FetchReturnOf(i, Responses, RunClocks)

\* The messages in flight in the calls of the other tasks.
RECURSIVE othersInFlight(_, _)
othersInFlight(i, j) ==
    IF j > Len(pc) THEN << >>
    ELSE (IF j # i /\ pc[j] = "writing" THEN written[j][Len(written[j])] ELSE << >>)
            \o othersInFlight(i, j + 1)

\* PublishBegin with the messages built in a buffer the calls share.
PublishBeginSharedBuffer(i) ==
    /\ Alive /\ pc[i] = "publish"
    /\ LET r == PublishPoints(points[i]) IN
        /\ written' = [written EXCEPT ![i] =
                         IF r.do = "write"
                         THEN Append(@, othersInFlight(i, 1) \o r.messages) ELSE @]
        /\ pc' = [pc EXCEPT ![i] =
                         IF r.do = "write" /\ ~closed THEN "writing" ELSE "waitTick"]
        /\ outcome' = [outcome EXCEPT ![i] =
                         IF r.do = "write" THEN (IF closed THEN "publish error" ELSE "")
                         ELSE IF r.err # "" THEN "publish error" ELSE "published"]
        /\ points' = [points EXCEPT ![i] =
                         IF r.do = "write" /\ ~closed THEN @ ELSE << >>]
    /\ lastDoc' = [lastDoc EXCEPT ![i] = 0]
    /\ UNCHANGED <<mainVars, crashed, taskCfg, tickChan, ticksFired, ticksUsed, cycles,
                   sent>>

\* line 128 and PublishPoints up to WriteMessages; on a writer that is
\* closed WriteMessages returns an error at once (lines 129-132).
PublishBegin(i) ==
    /\ Alive /\ pc[i] = "publish"
    /\ LET r == PublishPoints(points[i]) IN
        /\ written' = [written EXCEPT ![i] =
                         IF r.do = "write" THEN Append(@, r.messages) ELSE @]
        /\ pc' = [pc EXCEPT ![i] =
                         IF r.do = "write" /\ ~closed THEN "writing" ELSE "waitTick"]
        /\ outcome' = [outcome EXCEPT ![i] =
                         IF r.do = "write" THEN (IF closed THEN "publish error" ELSE "")
                         ELSE IF r.err # "" THEN "publish error" ELSE "published"]
        /\ points' = [points EXCEPT ![i] =
                         IF r.do = "write" /\ ~closed THEN @ ELSE << >>]
    /\ lastDoc' = [lastDoc EXCEPT ![i] = 0]
    /\ UNCHANGED <<mainVars, crashed, taskCfg, tickChan, ticksFired, ticksUsed, cycles,
                   sent>>

\* WriteReturn with a failed submission tried again.
WriteReturnRetrying(i) ==
    /\ Alive /\ pc[i] = "writing"
    /\ \E ok \in BOOLEAN :
        /\ outcome' = [outcome EXCEPT ![i] = IF ok THEN "published" ELSE "publish error"]
        /\ pc' = [pc EXCEPT ![i] = IF ok THEN "waitTick" ELSE "publish"]
        /\ points' = [points EXCEPT ![i] = IF ok THEN << >> ELSE @]
    /\ UNCHANGED <<mainVars, crashed, taskCfg, tickChan, ticksFired, ticksUsed,
                   cycles, lastDoc, written, sent>>

\* WriteMessages returns, with an error or without; lines 129-134.
WriteReturn(i) ==
    /\ Alive /\ pc[i] = "writing"
    /\ \E ok \in BOOLEAN :
        outcome' = [outcome EXCEPT ![i] = IF ok THEN "published" ELSE "publish error"]
    /\ pc' = [pc EXCEPT ![i] = "waitTick"]
    /\ points' = [points EXCEPT ![i] = << >>]
    /\ UNCHANGED <<mainVars, crashed, taskCfg, tickChan, ticksFired, ticksUsed,
                   cycles, lastDoc, written, sent>>

Next ==
    \/ MainLoad
    \/ MainSpawn
    \/ MainShutdown
    \/ MainExit
    \/ \E i \in Tasks : WorkerStart(i)
    \/ \E i \in Tasks : Tick(i)
    \/ \E i \in Tasks : FirstCycle(i)
    \/ \E i \in Tasks : TickCycle(i)
    \/ \E i \in Tasks : FetchReturn(i)
    \/ \E i \in Tasks : PublishBegin(i)
    \/ \E i \in Tasks : WriteReturn(i)

\* The whole run, for the directories over RunFiles.
Init == InitWith(RunDirectories)

Spec == Init /\ [][Next]_vars

\* Startup alone (main up to the spawned goroutines' checks and tickers), for
\* every directory over the catalogue.
StartInit == InitWith(Directories)

StartNext ==
    \/ MainLoad
    \/ MainSpawn
    \/ \E i \in Tasks : WorkerStart(i)

StartSpec == StartInit /\ [][StartNext]_vars

(* ------------------ PublishPoints called on any batch ------------------ *)

PubPoint(source, variable, value, stationId) ==
    [Source |-> source, Category |-> "environmental", Variable |-> variable,
     Units |-> "celsius", Value |-> value, Lat |-> 45, Lon |-> 120,
     Resolution |-> "point", Uuid |-> generateUUID(source, variable, stationId, 0)]

\* The points a caller can pass: strings that are or are not valid UTF-8,
\* values that are or are not numbers, and a point whose token alone is not
\* valid UTF-8.
PubPoints ==
    { PubPoint(s, v, x, "") : s \in {"alpha", BadUtf8},
                              v \in {"temperature", "humidity"},
                              x \in {21, NaN} }
        \cup { PubPoint("alpha", "temperature", 21, BadUtf8) }

Batches == UNION { [1..n -> PubPoints] : n \in 0..MaxBatch }

\* One caller about to call PublishPoints(batch) on a started process.
PubInit ==
    /\ dir = << >>
    /\ pcMain = "wait"
    /\ sources = << >>
    /\ loadErr = NoErr
    /\ crashed = FALSE
    /\ closed = FALSE
    /\ pc = <<"publish">>
    /\ taskCfg = << << >> >>
    /\ tickChan = <<0>>
    /\ ticksFired = 0
    /\ ticksUsed = <<0>>
    /\ cycles = <<1>>
    /\ lastDoc = <<0>>
    /\ points \in { <<b>> : b \in Batches }
    /\ outcome = <<"">>
    /\ written = << << >> >>
    /\ env = DefaultEnv
    /\ sent = << << >> >>

PubNext ==
    \/ \E i \in Tasks : PublishBegin(i)
    \/ \E i \in Tasks : WriteReturn(i)

PubSpec == PubInit /\ [][PubNext]_vars

(* ------------- one source fetching with any extraction config ---------- *)

ExtDef(config) == Def("alpha", "http_fetch", "environmental", "15s", config)

\* One spawned goroutine of a started process, for a source in single-point
\* mode or with a data_points list.
ExtInit ==
    /\ dir = << >>
    /\ pcMain = "wait"
    /\ \/ \E path \in ExtPaths : \E c \in DOMAIN CoordForms :
              sources = << ExtDef(SingleWith(path, CoordForms[c])) >>
       \/ sources = << ExtDef(SingleNoCoordinates) >>
       \/ \E list \in EntryLists : sources = << ExtDef(MultiWith(list)) >>
    /\ loadErr = NoErr
    /\ crashed = FALSE
    /\ closed = FALSE
    /\ pc = <<"start">>
    /\ taskCfg = << << >> >>
    /\ tickChan = <<0>>
    /\ ticksFired = 0
    /\ ticksUsed = <<0>>
    /\ cycles = <<0>>
    /\ lastDoc = <<0>>
    /\ points = << << >> >>
    /\ outcome = <<"">>
    /\ written = << << >> >>
    /\ env = DefaultEnv
    /\ sent = << << >> >>

ExtFetchReturn(i) == FetchReturnOf(i, ExtResponses, 1..MaxClock)

ExtNext ==
    \/ \E i \in Tasks : WorkerStart(i)
    \/ \E i \in Tasks : FirstCycle(i)
    \/ \E i \in Tasks : ExtFetchReturn(i)
    \/ \E i \in Tasks : PublishBegin(i)
    \/ \E i \in Tasks : WriteReturn(i)

ExtractSpec == ExtInit /\ [][ExtNext]_vars

(* ------- two sources in cycles, one with any data_points list ---------- *)

\* The data_points lists of the first source: of the temperature entry, the
\* humidity entry and the entry that is not a mapping.
BatchLists == { list \in EntryLists : \A k \in DOMAIN list : list[k] \in {1, 2, 7} }

\* Two spawned goroutines of a started process: one for a source with any of
\* those data_points lists, one for a source in single-point mode.
BatchInit ==
    /\ dir = << >>
    /\ pcMain = "wait"
    /\ \E list \in BatchLists :
          sources = << ExtDef(MultiWith(list)),
                       Def("beta", "http_fetch", "health", "30s", SingleConfig) >>
    /\ loadErr = NoErr
    /\ crashed = FALSE
    /\ closed = FALSE
    /\ pc = <<"start", "start">>
    /\ taskCfg = << << >>, << >> >>
    /\ tickChan = <<0, 0>>
    /\ ticksFired = 0
    /\ ticksUsed = <<0, 0>>
    /\ cycles = <<0, 0>>
    /\ lastDoc = <<0, 0>>
    /\ points = << << >>, << >> >>
    /\ outcome = <<"", "">>
    /\ written = << << >>, << >> >>
    /\ env = DefaultEnv
    /\ sent = << << >>, << >> >>

BatchNext ==
    \/ \E i \in Tasks : WorkerStart(i)
    \/ \E i \in Tasks : Tick(i)
    \/ \E i \in Tasks : FirstCycle(i)
    \/ \E i \in Tasks : TickCycle(i)
    \/ \E i \in Tasks : FetchReturn(i)
    \/ \E i \in Tasks : PublishBegin(i)
    \/ \E i \in Tasks : WriteReturn(i)

BatchSpec == BatchInit /\ [][BatchNext]_vars

(* ------------- one source fetching with any headers list --------------- *)

HeaderEntry(key, value) == MapV([key |-> StrV(key), value |-> StrV(value)])

\* The entries the headers lists are made of; the last one is not a mapping.
HeaderEntries ==
    << HeaderEntry("Authorization", "${MY_VAR}"),
       HeaderEntry("X-Api-Key", "${OTHER_VAR}"),
       HeaderEntry("Accept", "application/json"),
       HeaderEntry("authorization", "Bearer ${MY_VAR}"),
       HeaderEntry("X-Api-Key", "${MY_VAR"),
       HeaderEntry("X-Trace", "${}"),
       HeaderEntry("X-Pair", "${MY_VAR}-${OTHER_VAR}"),
       StrV("Accept: text/plain") >>

\* The headers lists, as sequences of indices of HeaderEntries.
HeaderLists == UNION { [1..n -> DOMAIN HeaderEntries] : n \in 0..MaxHeaders }

HeadersWith(list) ==
    [url |-> StrV("http://api/one"),
     headers |-> ListV([k \in DOMAIN list |-> HeaderEntries[list[k]]]),
     response_path |-> StrV("main.temp"),
     coordinates |-> CoordLiteral]

\* The environments: MY_VAR set and OTHER_VAR not, neither set, MY_VAR set to
\* the empty string and OTHER_VAR set.
Envs ==
    { DefaultEnv,
      [n \in EnvNames |-> EnvVar(FALSE, "")],
      [n \in EnvNames |-> IF n = "MY_VAR" THEN EnvVar(TRUE, "") ELSE EnvVar(TRUE, "key1")] }

\* One spawned goroutine of a started process, for a source with any of the
\* headers lists, in any of the environments.
ReqInit ==
    /\ dir = << >>
    /\ pcMain = "wait"
    /\ \E list \in HeaderLists : sources = << ExtDef(HeadersWith(list)) >>
    /\ loadErr = NoErr
    /\ crashed = FALSE
    /\ closed = FALSE
    /\ pc = <<"start">>
    /\ taskCfg = << << >> >>
    /\ tickChan = <<0>>
    /\ ticksFired = 0
    /\ ticksUsed = <<0>>
    /\ cycles = <<0>>
    /\ lastDoc = <<0>>
    /\ points = << << >> >>
    /\ outcome = <<"">>
    /\ written = << << >> >>
    /\ env \in Envs
    /\ sent = << << >> >>

ReqNext ==
    \/ \E i \in Tasks : WorkerStart(i)
    \/ \E i \in Tasks : FirstCycle(i)

RequestSpec == ReqInit /\ [][ReqNext]_vars

(* ------------------------------ the claims ----------------------------- *)

\* The entries of a merged config's data_points list.
DataPointsOf(config) ==
    IF HasType(config, "data_points", "list") THEN config["data_points"].v ELSE << >>

\* Entry k of source i's data_points fails extraction on document doc.
EntryFails(i, k, doc) ==
    LET e == DataPointsOf(taskCfg[i])[k] IN
    /\ e.t = "map"
    /\ extractSingleDataPoint(doc, e.v, sources[i].Name, sources[i].Category, 0).err # ""

\* C1: multi-point extraction is all-or-nothing.  When the fetch of source i
\* has just parsed a document on which some entry of data_points fails
\* extraction, Fetch returned an error and no points, and the task is back
\* waiting for its next tick with nothing given to the writer in this cycle.
C1_AllOrNothing ==
    \A i \in Tasks :
        (lastDoc[i] # 0
            /\ \E k \in DOMAIN DataPointsOf(taskCfg[i]) :
                    EntryFails(i, k, Responses[lastDoc[i]].doc))
        => /\ points[i] = << >>
           /\ outcome[i] = "fetch error"
           /\ pc[i] = "waitTick"
           /\ written[i] = << >>

\* A fetch failed on the second entry after the first one had extracted.
C1_Witness ==
    \E i \in Tasks :
        /\ lastDoc[i] # 0
        /\ Len(DataPointsOf(taskCfg[i])) = 2
        /\ ~EntryFails(i, 1, Responses[lastDoc[i]].doc)
        /\ EntryFails(i, 2, Responses[lastDoc[i]].doc)
        /\ outcome[i] = "fetch error"

\* C2: once a task has entered its loop it stays alive, waiting for its
\* next tick, whatever its cycles' outcomes: a task waiting for a tick is
\* never in a process that ended without a termination signal.
C2_TaskStaysAlive ==
    \A i \in Tasks : (pc[i] = "waitTick" /\ pcMain # "exited") => ~crashed

\* C3: after a successful startup load the process keeps running until a
\* termination signal arrives: no source's configuration makes it end.
C3_ProcessKeepsRunning == pcMain = "wait" => ~crashed

\* A source that resolves to no capability or fails capability validation.
NotRunnable(source) ==
    source.Type # "http_fetch" \/ "url" \notin DOMAIN source.Config

\* C4: a source whose type resolves to no capability, or whose config fails
\* capability validation, never enters a cycle: no Fetch, no points, nothing
\* written, at any time of the run.
C4_NeverFetched ==
    \A i \in Tasks :
        NotRunnable(sources[i])
        => /\ cycles[i] = 0
           /\ pc[i] \in {"unspawned", "start", "returned"}
           /\ points[i] = << >>
           /\ written[i] = << >>

\* Such a task has returned while another source is in its second cycle.
C4_Witness ==
    \E i, j \in Tasks :
        /\ NotRunnable(sources[i]) /\ pc[i] = "returned"
        /\ cycles[j] = 2 /\ pc[j] = "writing"

\* C5: the format header of every message names the encoding that produced
\* the message's value.
C5_FormatNamesEncoding ==
    \A i \in Tasks : \A b \in DOMAIN written[i] : \A m \in DOMAIN written[i][b] :
        written[i][b][m].Headers.format = written[i][b][m].Value.encoding

\* C6: every source definition load returns has a frequency that parses to
\* a strictly positive duration.
C6_PositiveFrequency ==
    \A k \in DOMAIN sources :
        GetFrequency(sources[k]).err = "" /\ GetFrequency(sources[k]).d > 0

\* An entry that load cannot read, parse or validate.
BadFile(f) ==
    /\ f.ext \in {".yaml", ".yml"}
    /\ \/ ~f.readable
       \/ ~f.parses
       \/ f.def.Name = "" \/ f.def.Type = "" \/ f.def.Frequency = ""
       \/ f.def.Category \notin Categories
       \/ ParseDuration(f.def.Frequency).err # ""

\* An entry that ends the load: a bad file, or one the walk cannot visit.
Failing(f) == f.walkErr \/ BadFile(f)

FirstBad(d) ==
    CHOOSE k \in DOMAIN d :
        Failing(Entries(d)[k]) /\ \A j \in DOMAIN d : j < k => ~Failing(Entries(d)[j])

\* C7: load is fail-fast.  When some config file under the directory cannot
\* be read, parsed or validated, load returns an error naming the first entry
\* that ends the load (the first such file, or an entry before it that the
\* walk could not visit), main exits, and no worker task exists.
C7_FailFast ==
    (pcMain # "load" /\ \E k \in DOMAIN dir : BadFile(Entries(dir)[k]))
    => /\ loadErr.err # ""
       /\ loadErr.path = FirstBad(dir)
       /\ pcMain = "fatal"
       /\ Tasks = {}

\* Load failed on the second file after a valid first one.
C7_Witness ==
    /\ pcMain = "fatal"
    /\ loadErr.path = 2
    /\ BadFile(Entries(dir)[2])
    /\ Len(sources) = 1
    /\ Tasks = {}

\* C8: the first cycle of a source starts at task start without receiving a
\* tick, and every later cycle receives exactly one tick: the cycles started
\* are one more than the ticks received, a started task has begun its first
\* cycle, and no tick is received that the ticker did not send.
C8_OneTickPerLaterCycle ==
    \A i \in Tasks :
        /\ cycles[i] = 0 => ticksUsed[i] = 0 /\ pc[i] \notin LoopStates \ {"cycle"}
        /\ cycles[i] > 0 => cycles[i] = ticksUsed[i] + 1
        /\ ticksUsed[i] + tickChan[i] <= ticksFired

\* A source is in a later cycle, started by the tick it received.
C8_Witness ==
    \E i \in Tasks : cycles[i] = 2 /\ ticksUsed[i] = 1 /\ pc[i] = "fetching"

\* C9: every DataPoint of a source carries the definition's name as Source
\* and the definition's category as Category, whatever source and category
\* keys the config map or a data_points entry holds.
C9_SourceAndCategory ==
    \A i \in Tasks : \A k \in DOMAIN points[i] :
        /\ points[i][k].Source = sources[i].Name
        /\ points[i][k].Category = sources[i].Category

\* The config map holds a source key with another value, in single-point
\* mode or on a data_points entry, and points were made from it after a tick.
C9_Witness ==
    /\ \E i \in Tasks :
        /\ ~HasType(sources[i].Config, "data_points", "list")
        /\ HasType(sources[i].Config, "source", "string")
        /\ HasType(sources[i].Config, "category", "string")
        /\ sources[i].Config["source"].v # sources[i].Name
        /\ sources[i].Config["category"].v # sources[i].Category
        /\ Len(points[i]) = 1
    /\ \E i \in Tasks :
        /\ HasType(sources[i].Config, "data_points", "list")
        /\ sources[i].Config["data_points"].v[1].v["source"].v # sources[i].Name
        /\ Len(points[i]) = 2
        /\ cycles[i] = 2

\* C10: PublishPoints on an empty sequence returns success and gives nothing
\* to the writer.
C10_EmptyBatchNoWrite ==
    [][\A i \in Tasks :
          (pc[i] = "publish" /\ pc'[i] # "publish" /\ points[i] = << >>)
          => /\ pc'[i] = "waitTick"
             /\ outcome'[i] = "published"
             /\ written'[i] = written[i]]_vars

\* The call on the empty batch has returned success with nothing written.
C10_Witness ==
    \E i \in Tasks :
        pc[i] = "waitTick" /\ outcome[i] = "published" /\ written[i] = << >>

(* Claims C11 to C15 are about the extraction alone and are checked under    *)
(* ExtractSpec.  They are stated in the terms of the specification: a path   *)
(* query navigates from the root of the document, which "$" may name, and a  *)
(* literal coordinate is a number as written in the source file.             *)

\* The document the fetch of source i has just parsed.
Doc(i) == ExtResponses[lastDoc[i]].doc

\* The keys a path query navigates, the root marker left out.
QuerySegs(path) ==
    LET segs == PathSegs(path) IN
    IF segs # << >> /\ Head(segs) = "$" THEN Tail(segs) ELSE segs

\* What the path query addresses in the document.
Addressed(doc, path) ==
    IF QuerySegs(path) = << >> THEN NoResult ELSE Descend(doc, QuerySegs(path))

\* The sub-configurations of a config: the entries of data_points, or the
\* config itself in single-point mode.
SubConfigs(config) ==
    IF HasType(config, "data_points", "list") THEN config["data_points"].v
    ELSE << MapV(config) >>

InRange(x, lo, hi) == x # NaN /\ lo <= x /\ x <= hi

\* coords gives the coordinate as a literal of one of the types.
LiteralGiven(coords, litKey, types) ==
    litKey \in DOMAIN coords /\ coords[litKey].t \in types

\* coords gives the coordinate, by a path that addresses a number or by a
\* literal of one of the types, and the number is within lo..hi.
CoordGiven(doc, coords, pathKey, litKey, types, lo, hi) ==
    IF HasType(coords, pathKey, "string")
    THEN LET r == Addressed(doc, coords[pathKey].v) IN
         r.exists /\ r.node.t = "number" /\ InRange(r.node.n, lo, hi)
    ELSE LiteralGiven(coords, litKey, types) /\ InRange(coords[litKey].v, lo, hi)

ValidCoordinates(doc, sc, types) ==
    /\ HasType(sc, "coordinates", "map")
    /\ CoordGiven(doc, sc["coordinates"].v, "lat_path", "lat", types, LatMin, LatMax)
    /\ CoordGiven(doc, sc["coordinates"].v, "lon_path", "lon", types, LonMin, LonMax)

Numeric == {"float64", "int"}

\* C11: for a data_points list of N entries in which every entry's
\* response_path addresses something in the document and whose coordinates
\* are valid, Fetch succeeds with exactly N points, in list order, the k-th
\* carrying the k-th entry's variable and units.
C11_OnePointPerEntry ==
    \A i \in Tasks :
        LET es == DataPointsOf(taskCfg[i]) IN
        (/\ lastDoc[i] # 0
         /\ HasType(taskCfg[i], "data_points", "list")
         /\ \A k \in DOMAIN es :
                /\ es[k].t = "map"
                /\ HasType(es[k].v, "response_path", "string")
                /\ Addressed(Doc(i), es[k].v["response_path"].v).exists
                /\ ValidCoordinates(Doc(i), es[k].v, Numeric))
        => /\ outcome[i] # "fetch error"
           /\ Len(points[i]) = Len(es)
           /\ \A k \in DOMAIN es :
                /\ HasType(es[k].v, "variable", "string")
                      => points[i][k].Variable = es[k].v["variable"].v
                /\ HasType(es[k].v, "units", "string")
                      => points[i][k].Units = es[k].v["units"].v

\* C12: in single-point mode, with a response_path that addresses a number
\* of the document and valid coordinates (by path, or by literals decoded as
\* floats), extraction yields exactly one point whose value is that number.
C12_SinglePointValue ==
    \A i \in Tasks :
        (/\ lastDoc[i] # 0
         /\ ~HasType(taskCfg[i], "data_points", "list")
         /\ HasType(taskCfg[i], "response_path", "string")
         /\ Addressed(Doc(i), taskCfg[i]["response_path"].v).exists
         /\ Addressed(Doc(i), taskCfg[i]["response_path"].v).node.t = "number"
         /\ ValidCoordinates(Doc(i), taskCfg[i], {"float64"}))
        => /\ outcome[i] # "fetch error"
           /\ Len(points[i]) = 1
           /\ points[i][1].Value = Addressed(Doc(i), taskCfg[i]["response_path"].v).node.n

\* What a coordinate resolves to: the number the path yields, or the literal.
Resolved(doc, coords, pathKey, litKey) ==
    IF HasType(coords, pathKey, "string")
    THEN [some |-> GjsonGet(doc, coords[pathKey].v).exists,
          v |-> ResultFloat(GjsonGet(doc, coords[pathKey].v))]
    ELSE IF LiteralGiven(coords, litKey, Numeric)
         THEN [some |-> TRUE, v |-> coords[litKey].v]
         ELSE [some |-> FALSE, v |-> 0]

\* Some coordinate of the sub-configuration resolves to a value out of range.
ResolvesOutOfRange(doc, sc) ==
    /\ HasType(sc, "coordinates", "map")
    /\ \/ LET la == Resolved(doc, sc["coordinates"].v, "lat_path", "lat")
          IN  la.some /\ ~InRange(la.v, LatMin, LatMax)
       \/ LET lo == Resolved(doc, sc["coordinates"].v, "lon_path", "lon")
          IN  lo.some /\ ~InRange(lo.v, LonMin, LonMax)

\* C13: every DataPoint Fetch returns, and every point of a message given to
\* the writer, has latitude in [-90, 90] and longitude in [-180, 180]; a
\* fetch in which a coordinate resolves out of range fails with an error.
C13_CoordinatesInRange ==
    \A i \in Tasks :
        /\ \A k \in DOMAIN points[i] :
                /\ InRange(points[i][k].Lat, LatMin, LatMax)
                /\ InRange(points[i][k].Lon, LonMin, LonMax)
        /\ \A b \in DOMAIN written[i] : \A m \in DOMAIN written[i][b] :
                /\ InRange(written[i][b][m].Value.point.Lat, LatMin, LatMax)
                /\ InRange(written[i][b][m].Value.point.Lon, LonMin, LonMax)
        /\ (lastDoc[i] # 0
              /\ \E k \in DOMAIN SubConfigs(taskCfg[i]) :
                    /\ SubConfigs(taskCfg[i])[k].t = "map"
                    /\ ResolvesOutOfRange(Doc(i), SubConfigs(taskCfg[i])[k].v))
           => outcome[i] = "fetch error" /\ points[i] = << >>

\* The sub-configuration gives literal lat and lon, within range, and a
\* response_path that resolves.
LiteralAndResolvable(doc, e) ==
    /\ e.t = "map"
    /\ HasType(e.v, "response_path", "string")
    /\ GjsonGet(doc, e.v["response_path"].v).exists
    /\ HasType(e.v, "coordinates", "map")
    /\ LET c == e.v["coordinates"].v IN
        /\ ~HasType(c, "lat_path", "string") /\ ~HasType(c, "lon_path", "string")
        /\ LiteralGiven(c, "lat", Numeric) /\ InRange(c["lat"].v, LatMin, LatMax)
        /\ LiteralGiven(c, "lon", Numeric) /\ InRange(c["lon"].v, LonMin, LonMax)

\* C14: when every sub-configuration gives literal numeric lat and lon
\* within range, whole numbers included, and a response_path that resolves,
\* extraction succeeds and each point carries its sub-configuration's
\* literals as coordinates.
C14_LiteralCoordinates ==
    \A i \in Tasks :
        LET scs == SubConfigs(taskCfg[i]) IN
        (lastDoc[i] # 0 /\ \A k \in DOMAIN scs : LiteralAndResolvable(Doc(i), scs[k]))
        => /\ outcome[i] # "fetch error"
           /\ Len(points[i]) = Len(scs)
           /\ \A k \in DOMAIN scs :
                /\ points[i][k].Lat = scs[k].v["coordinates"].v["lat"].v
                /\ points[i][k].Lon = scs[k].v["coordinates"].v["lon"].v

\* The coordinates are given as a pair: both paths, or both literals.
PairForm(sc) ==
    /\ HasType(sc, "coordinates", "map")
    /\ LET c == sc["coordinates"].v IN
        \/ HasType(c, "lat_path", "string") /\ HasType(c, "lon_path", "string")
        \/ LiteralGiven(c, "lat", Numeric) /\ LiteralGiven(c, "lon", Numeric)

\* Each coordinate is given in a form of its own: a path or a literal.
EachForm(sc) ==
    /\ HasType(sc, "coordinates", "map")
    /\ LET c == sc["coordinates"].v IN
        /\ HasType(c, "lat_path", "string") \/ LiteralGiven(c, "lat", Numeric)
        /\ HasType(c, "lon_path", "string") \/ LiteralGiven(c, "lon", Numeric)

\* The fetch of source i parsed a document and returned without an error.
Extracted(i) == lastDoc[i] # 0 /\ outcome[i] # "fetch error"

\* C15 as stated: extraction succeeds only when each sub-configuration gives
\* its coordinates as a pair, both lat_path and lon_path or both literals.
C15_PairedForms ==
    \A i \in Tasks :
        Extracted(i)
        => \A k \in DOMAIN SubConfigs(taskCfg[i]) :
              SubConfigs(taskCfg[i])[k].t = "map"
              => PairForm(SubConfigs(taskCfg[i])[k].v)

\* C15 as amended: extraction succeeds only when each sub-configuration has
\* a coordinates mapping that gives latitude by lat_path or a literal lat and
\* longitude by lon_path or a literal lon; without the mapping, or with
\* neither form for latitude or for longitude, the fetch fails.
C15_EachCoordinateGiven ==
    \A i \in Tasks :
        Extracted(i)
        => \A k \in DOMAIN SubConfigs(taskCfg[i]) :
              SubConfigs(taskCfg[i])[k].t = "map"
              => EachForm(SubConfigs(taskCfg[i])[k].v)

\* A config that gives latitude by path and longitude by literal has
\* extracted its point.
C15_Witness ==
    \E i \in Tasks :
        /\ Extracted(i) /\ pc[i] = "publish" /\ Len(points[i]) = 1
        /\ HasType(taskCfg[i], "coordinates", "map")
        /\ HasType(taskCfg[i]["coordinates"].v, "lat_path", "string")
        /\ ~HasType(taskCfg[i]["coordinates"].v, "lon_path", "string")
        /\ points[i][1].Lon = taskCfg[i]["coordinates"].v["lon"].v

\* The definition has all four fields and a category of the enumeration.
WellFormed(s) ==
    /\ s.Name # "" /\ s.Type # "" /\ s.Category # "" /\ s.Frequency # ""
    /\ s.Category \in {"environmental", "health", "infrastructure", "economic", "social"}

\* C16: every definition load returns has a non-empty name, type, category
\* and frequency and a category of the enumeration; a file whose definition
\* violates one of these makes load fail, at that file or before it.
C16_ValidatedFields ==
    /\ \A k \in DOMAIN sources : WellFormed(sources[k])
    /\ \A k \in DOMAIN dir :
          (/\ pcMain # "load"
           /\ Entries(dir)[k].ext \in {".yaml", ".yml"}
           /\ Entries(dir)[k].readable /\ Entries(dir)[k].parses
           /\ ~WellFormed(Entries(dir)[k].def))
          => /\ loadErr.err # ""
             /\ loadErr.path \in 1..k
             /\ pcMain = "fatal"

\* Load accepted a first file and rejected the second for its category.
C16_Witness ==
    /\ pcMain = "fatal"
    /\ Len(dir) = 2
    /\ Len(sources) = 1
    /\ loadErr.err = "invalid configuration"
    /\ loadErr.path = 2
    /\ Entries(dir)[2].def.Category = "weather"

\* C17: the definitions a successful load returns have pairwise distinct
\* names, so no two worker tasks run for the same name.
C17_DistinctNames ==
    loadErr.err = ""
    => \A j, k \in DOMAIN sources : j # k => sources[j].Name # sources[k].Name

\* Some encoding accepts the point.
Encodable(p) == protobufMarshal(p).err = "" \/ jsonMarshal(p).err = ""

\* The batch is made of the points, one message each, in order, with the
\* point's source as key and its fields as headers.
BuiltFrom(batch, pts) ==
    /\ Len(batch) = Len(pts)
    /\ \A k \in DOMAIN pts :
        /\ batch[k].Key = pts[k].Source
        /\ batch[k].Value.point = pts[k]
        /\ batch[k].Headers.source = pts[k].Source
        /\ batch[k].Headers.variable = pts[k].Variable
        /\ batch[k].Headers.category = pts[k].Category

\* C18 as stated: PublishPoints on a non-empty batch of n points makes
\* exactly one submission, of n messages, the k-th built from the k-th point.
C18_OneSubmission ==
    [][\A i \in Tasks :
          (pc[i] = "publish" /\ pc'[i] # "publish" /\ points[i] # << >>)
          => /\ Len(written'[i]) = Len(written[i]) + 1
             /\ written'[i] = Append(written[i], written'[i][Len(written'[i])])
             /\ BuiltFrom(written'[i][Len(written'[i])], points[i])]_vars

\* C18 as amended: PublishPoints on a non-empty batch of n points, each of
\* which some encoding accepts, makes exactly one submission, of n messages,
\* the k-th built from the k-th point; nothing else submits.
C18_OneSubmissionOfEncodable ==
    [][\A i \in Tasks :
          /\ (/\ pc[i] = "publish" /\ pc'[i] # "publish" /\ points[i] # << >>
              /\ \A k \in DOMAIN points[i] : Encodable(points[i][k]))
             => /\ Len(written'[i]) = Len(written[i]) + 1
                /\ written'[i] = Append(written[i], written'[i][Len(written'[i])])
                /\ BuiltFrom(written'[i][Len(written'[i])], points[i])
          /\ pc[i] # "publish" => written'[i] = written[i]]_vars

\* A batch of two points of different sources has been submitted once.
C18_Witness ==
    \E i \in Tasks :
        /\ pc[i] = "writing"
        /\ Len(written[i]) = 1
        /\ Len(written[i][1]) = 2
        /\ written[i][1][1].Key # written[i][1][2].Key
        /\ written[i][1][1].Headers.variable # written[i][1][2].Headers.variable

\* Both encodings reject the point.
BothFail(p) == protobufMarshal(p).err # "" /\ jsonMarshal(p).err # ""

\* C19: a point the protobuf encoding rejects and the JSON encoding accepts
\* is in the submitted batch with its JSON encoding as value; PublishPoints
\* returns an encoding error exactly when both encodings reject some point,
\* and then submits nothing.
C19_JsonFallback ==
    [][\A i \in Tasks :
          (pc[i] = "publish" /\ pc'[i] # "publish")
          => /\ outcome'[i] = "publish error"
                   <=> \E k \in DOMAIN points[i] : BothFail(points[i][k])
             /\ outcome'[i] = "publish error"
                   => written'[i] = written[i] /\ pc'[i] = "waitTick"
             /\ (outcome'[i] # "publish error" /\ points[i] # << >>)
                   => /\ Len(written'[i]) = Len(written[i]) + 1
                      /\ Len(written'[i][Len(written'[i])]) = Len(points[i])
                      /\ \A k \in DOMAIN points[i] :
                            LET m == written'[i][Len(written'[i])][k] IN
                            /\ m.Value.point = points[i][k]
                            /\ m.Value.encoding =
                                 IF protobufMarshal(points[i][k]).err # ""
                                 THEN "json" ELSE "protobuf"]_vars

\* A submitted batch holds a message encoded by the fallback next to one
\* encoded by protobuf.
C19_Witness ==
    \E i \in Tasks :
        /\ pc[i] = "writing"
        /\ Len(written[i]) = 1
        /\ Len(written[i][1]) = 2
        /\ written[i][1][1].Value.encoding = "json"
        /\ written[i][1][1].Value.point.Source = BadUtf8
        /\ written[i][1][2].Value.encoding = "protobuf"

\* C20: when the submission fails, the cycle ends with one error and its
\* points are dropped: the task waits for its next tick with no points, and
\* nothing is submitted again.  Every submission is the first of its cycle
\* and is made of the points the fetch of that cycle has just returned.
C20_NoResubmission ==
    [][\A i \in Tasks :
          /\ (pc[i] = "writing" /\ outcome'[i] = "publish error")
             => /\ pc'[i] = "waitTick"
                /\ points'[i] = << >>
                /\ written'[i] = written[i]
          /\ (pc[i] = "waitTick" /\ outcome[i] = "publish error" /\ pc'[i] # "waitTick")
             => /\ cycles'[i] = cycles[i] + 1
                /\ points'[i] = << >> /\ written'[i] = << >>
          /\ (written'[i] # written[i] /\ written'[i] # << >>)
             => /\ pc[i] = "publish" /\ lastDoc[i] # 0
                /\ written[i] = << >>
                /\ Len(written'[i]) = 1
                /\ \E times \in Readings(ClockReads(taskCfg[i]), RunClocks) :
                      points[i] = FetchComplete(taskCfg[i], Responses[lastDoc[i]],
                                                times).points
                /\ BuiltFrom(written'[i][1], points[i])]_vars

\* The submission of a task's second cycle has failed: the task is waiting
\* with the error and without the points.
C20_Witness ==
    \E i \in Tasks :
        /\ cycles[i] = 2
        /\ pc[i] = "waitTick"
        /\ outcome[i] = "publish error"
        /\ Len(written[i]) = 1
        /\ points[i] = << >>

\* C21: any two DataPoints have different identifying tokens, also two
\* sub-points of one fetch that share source, variable and station_id.
C21_DistinctTokens ==
    \A i, j \in Tasks : \A k \in DOMAIN points[i] : \A l \in DOMAIN points[j] :
        (i # j \/ k # l) => points[i][k].Uuid # points[j][l].Uuid

\* C22: under every interleaving of the tasks' calls on the shared producer,
\* the batch a call has submitted is made of the messages of that call's
\* points and of nothing else: every message of a call in flight is built
\* from the point of the same position, for the calling task's source.
C22_BatchesNotMixed ==
    \A i \in Tasks :
        pc[i] = "writing"
        => /\ written[i] # << >>
           /\ BuiltFrom(written[i][Len(written[i])], points[i])
           /\ \A k \in DOMAIN written[i][Len(written[i])] :
                written[i][Len(written[i])][k].Key = sources[i].Name

\* The calls of two tasks for different sources are in flight together.
C22_Witness ==
    \E i, j \in Tasks :
        /\ pc[i] = "writing" /\ pc[j] = "writing"
        /\ sources[i].Name # sources[j].Name
        /\ Len(written[i][1]) = 2 /\ Len(written[j][1]) = 1

\* C23: a fetch or publish call in flight when the termination signal
\* arrives runs to its end before the process exits: the process has not
\* exited with a task inside Fetch or WriteMessages.
C23_InFlightCompletes ==
    pcMain = "exited" => \A i \in Tasks : pc[i] \notin {"fetching", "writing"}

(* C24 *)

\* The header values of the form ${NAME}, each with its NAME.
Forms ==
    { <<"${MY_VAR}", "MY_VAR">>, <<"${OTHER_VAR}", "OTHER_VAR">>, <<"${}", "">>,
      <<"${MY_VAR}-${OTHER_VAR}", "MY_VAR}-${OTHER_VAR">> }

\* What the claim has a configured header value sent as in environment e.
Expected(value, e) ==
    IF \E f \in Forms : f[1] = value
    THEN LET name == (CHOOSE f \in Forms : f[1] = value)[2]
         IN  IF name \in DOMAIN e /\ e[name].set THEN e[name].v ELSE ""
    ELSE value

\* Entry k of the headers list is a mapping no later mapping of the list
\* overrides by naming the same header.
LastForKey(headers, k) ==
    /\ headers[k].t = "map"
    /\ \A l \in DOMAIN headers :
           (l > k /\ headers[l].t = "map")
           => CanonicalKey(headers[l].v["key"].v) # CanonicalKey(headers[k].v["key"].v)

\* C24: once the cycle of a source has begun, its request is out and no
\* error is recorded, whatever the environment; every configured header
\* (the last entry of each header name) is on the request, with the value
\* of environment variable NAME when its configured value is ${NAME}, the
\* empty string when NAME is not set, and the configured value itself when
\* it is not of that form; and nothing else is on the request.
C24_HeaderSubstitution ==
    \A i \in Tasks :
        cycles[i] >= 1
        => /\ pc[i] = "fetching"
           /\ outcome[i] = ""
           /\ LET headers == taskCfg[i]["headers"].v IN
                /\ \A k \in DOMAIN headers :
                      LastForKey(headers, k)
                      => \E n \in DOMAIN sent[i] :
                            /\ sent[i][n].key = CanonicalKey(headers[k].v["key"].v)
                            /\ sent[i][n].value = Expected(headers[k].v["value"].v, env)
                /\ Len(sent[i]) = Cardinality({k \in DOMAIN headers : LastForKey(headers, k)})

\* A request is out with Authorization taken from MY_VAR, which is set, and
\* X-Api-Key empty because OTHER_VAR is not set.
C24_Witness ==
    \E i \in Tasks :
        /\ pc[i] = "fetching"
        /\ ~env["OTHER_VAR"].set
        /\ sent[i] = << [key |-> "Authorization", value |-> "secret"],
                        [key |-> "X-Api-Key", value |-> ""] >>

(* C25 *)

\* What task i holds for itself: its position, its configuration snapshot,
\* its ticker and the locals of its cycle.
Local(i) ==
    <<pc[i], taskCfg[i], tickChan[i], ticksUsed[i], cycles[i], lastDoc[i],
      points[i], outcome[i], written[i], sent[i]>>

\* C25: once the definitions are loaded no step changes them, the step that
\* builds the merged configuration of a task included: the task's copy has
\* the definition's category and name under category and source and the
\* definition's own entries elsewhere, and it never changes afterwards; and
\* once the tasks are spawned no step changes what two different tasks hold
\* for themselves.
C25_TasksShareNothing ==
    [][ pcMain # "load"
        => /\ sources' = sources
           /\ \A i \in Tasks :
                IF pc[i] = "start" /\ pc'[i] \in {"cycle", "panicked"}
                THEN /\ taskCfg'[i]["category"] = StrV(sources[i].Category)
                     /\ taskCfg'[i]["source"] = StrV(sources[i].Name)
                     /\ DOMAIN taskCfg'[i] = DOMAIN sources[i].Config \cup {"category", "source"}
                     /\ \A k \in DOMAIN sources[i].Config \ {"category", "source"} :
                            taskCfg'[i][k] = sources'[i].Config[k]
                ELSE taskCfg'[i] = taskCfg[i]
           /\ pcMain = "wait"
              => \A i, j \in Tasks :
                    (Local(i)' # Local(i) /\ Local(j)' # Local(j)) => i = j ]_vars

\* Two tasks run on their own copies, one of a definition whose config has
\* a category entry of its own that differs from the definition's category:
\* the copy has the definition's category and the loaded config still has
\* its own.
C25_Witness ==
    \E i, j \in Tasks :
        /\ i # j
        /\ pc[i] \in LoopStates /\ pc[j] \in LoopStates
        /\ "category" \in DOMAIN sources[i].Config
        /\ sources[i].Config["category"] # StrV(sources[i].Category)
        /\ taskCfg[i]["category"] = StrV(sources[i].Category)
        /\ "category" \notin DOMAIN sources[j].Config
        /\ taskCfg[j]["category"] = StrV(sources[j].Category)

(* C26 *)

\* Task i is inside a cycle: its fetch or its publish has not returned.
InCycle(i) == pc[i] \in {"fetching", "publish", "writing"}

\* C26: a task starts a fetch only when it is in no cycle (at its start, or
\* waiting for a tick after the cycle before has finished), it starts the
\* publish of a cycle only from that cycle's fetch having returned points
\* and no error, and it hands a batch to the writer only from there; a tick
\* that arrives while a cycle runs starts nothing.
C26_OneCycleInFlight ==
    [][ \A i \in Tasks :
          /\ cycles'[i] # cycles[i]
             => /\ cycles'[i] = cycles[i] + 1
                /\ pc[i] \in {"cycle", "waitTick"}
          /\ (pc'[i] = "publish" /\ pc[i] # "publish")
             => /\ pc[i] = "fetching"
                /\ outcome'[i] = ""
                /\ points'[i] # << >>
                /\ cycles'[i] = cycles[i]
          /\ (pc'[i] = "writing" /\ pc[i] # "writing")
             => pc[i] = "publish" /\ cycles'[i] = cycles[i]
          /\ (InCycle(i) /\ tickChan'[i] # tickChan[i])
             => pc'[i] = pc[i] /\ cycles'[i] = cycles[i] ]_vars

\* The ticker of a task has fired while the publish of its first cycle is
\* still with the writer: the cycle runs longer than the frequency.
C26_Witness ==
    \E i \in Tasks : pc[i] = "writing" /\ tickChan[i] = 1 /\ cycles[i] = 1

(* C27 *)

\* What the fetch of task i can return on the document it last parsed.
Fetched(i) ==
    { FetchComplete(taskCfg[i], Responses[lastDoc[i]], times) :
        times \in Readings(ClockReads(taskCfg[i]), RunClocks) }

\* Task i holds the points of a successful fetch of its own source in this
\* cycle: at least one, all of them and nothing else.
HoldsOwnFetch(i) ==
    /\ points[i] # << >>
    /\ lastDoc[i] # 0
    /\ \E fetched \in Fetched(i) : fetched.err = "" /\ points[i] = fetched.points
    /\ \A k \in DOMAIN points[i] : points[i][k].Source = sources[i].Name

\* C27: a task is about to make its publish call only with the points of
\* this cycle's successful fetch of its own source, at least one of them; a
\* cycle whose fetch failed or returned zero points is over, waiting for the
\* next tick, with no points and nothing handed over; and what a cycle has
\* handed over is one batch, which while it is with the writer is built from
\* exactly the points the task holds, each under the name of its source.
C27_BatchIsOwnFetch ==
    \A i \in Tasks :
        /\ pc[i] = "publish" => HoldsOwnFetch(i)
        /\ outcome[i] \in {"fetch error", "no data points"}
           => pc[i] = "waitTick" /\ points[i] = << >> /\ written[i] = << >>
        /\ pc[i] \in {"cycle", "fetching", "publish"} => written[i] = << >>
        /\ written[i] # << >>
           => /\ Len(written[i]) = 1
              /\ written[i][1] # << >>
              /\ \A k \in DOMAIN written[i][1] :
                    written[i][1][k].Value.point.Source = sources[i].Name
              /\ pc[i] = "writing"
                 => points[i] # << >> /\ BuiltFrom(written[i][1], points[i])

\* In its second cycle a task got zero points from a successful response
\* and is waiting for the next tick with nothing handed over, while another
\* task has handed over a batch.
C27_Witness ==
    \E i, j \in Tasks :
        /\ cycles[i] = 2 /\ pc[i] = "waitTick" /\ outcome[i] = "no data points"
        /\ written[i] = << >>
        /\ j # i /\ written[j] # << >>

(* C28 *)

\* C28: when Close has been called on the Producer no task is inside a
\* publish call on it.
C28_ClosedWhenIdle ==
    closed => \A i \in Tasks : pc[i] # "writing"

====
